---------------------------- MODULE Spec2Model ----------------------------
(***************************************************************************)
(* A model of ccanvas-scroll (src/src/main.rs): the scroll buffer (State), *)
(* its layout cache, the line wrappers, and the event loop of main that    *)
(* applies resize events and (possibly nested) mutation requests.          *)
(*                                                                         *)
(* A text is a sequence of characters, each a string naming it.  A          *)
(* character of the ASCII range takes one byte of the UTF-8 String, the    *)
(* character Wide takes two: String::len and String::truncate count bytes, *)
(* chars().skip counts characters.                                         *)
(***************************************************************************)
EXTENDS Integers, Sequences, FiniteSets, TLC

(***************************************************************************)
(* Bounds of the model.                                                    *)
(***************************************************************************)
\* the largest uid the counter may reach (caps the number of stored adds)
MaxUid == 3
\* the largest value of skip (caps the number of evictions and refused adds)
MaxSkip == 2
\* the largest cursor ScrollPosition::eval is called with on its own
MaxCursor == 3
\* the largest number of characters of a text chunk in an entry of several chunks
MaxText == 2
\* the largest number of chunks of an entry laid out on its own
MaxChunks == 3
\* the largest number of characters of the text of a single-chunk entry
MaxLong == 4
\* the largest display width an entry is laid out at on its own
MaxWidth == 3

(***************************************************************************)
(* Program constants.                                                      *)
(***************************************************************************)
\* the retention bound read from the environment at startup (main.rs:39-46);
\* the run modelled is one started with MAX_ENTRIES=2
MAX_ENTRIES == 2

\* Option: None is the empty sequence, Some(x) the one-element sequence
None == <<>>
Some(x) == <<x>>

Min(a, b) == IF a <= b THEN a ELSE b
Max(a, b) == IF a >= b THEN a ELSE b

(***************************************************************************)
(* Chunk (main.rs:236-274)                                                 *)
(***************************************************************************)
Colour(v) == [type |-> "colour", value |-> v]
Text(v) == [type |-> "text", value |-> v]

\* a character outside the ASCII range, two bytes long in UTF-8 (such as U+00E9)
Wide == "U+00E9"

\* char::len_utf8
ByteLen(c) == IF c = Wide THEN 2 ELSE 1

RECURSIVE Bytes(_)
\* String::len: the length of a text in bytes
Bytes(value) == IF value = <<>> THEN 0 ELSE ByteLen(Head(value)) + Bytes(Tail(value))

\* what a call leaves when String::truncate panics (new_len is not on a char
\* boundary): a chunk that is neither text nor colour, the last one produced
Panic == [type |-> "panic", value |-> <<>>]

\* Chunk::len
ChunkLen(chunk) == IF chunk.type = "colour" THEN 0 ELSE Bytes(chunk.value)

\* Chunk::truncate: String::truncate(length) keeps the text when length is not
\* below its byte length, cuts it at byte length when a character ends there,
\* and panics otherwise
ChunkTruncate(chunk, length) ==
    IF chunk.type = "colour" THEN chunk
    ELSE IF length >= Bytes(chunk.value) THEN chunk
    ELSE LET cuts == {k \in 0..Len(chunk.value) :
                        Bytes(SubSeq(chunk.value, 1, k)) = length}
         IN  IF cuts = {} THEN Panic
             ELSE Text(SubSeq(chunk.value, 1, CHOOSE k \in cuts : TRUE))

\* Chunk::skip: chars().skip(length) drops length characters
ChunkSkip(chunk, length) ==
    IF chunk.type = "colour" THEN chunk
    ELSE Text(SubSeq(chunk.value, length + 1, Len(chunk.value)))

(***************************************************************************)
(* Entry (main.rs:276-420): a sequence of chunks                           *)
(***************************************************************************)
RECURSIVE TruncateLoop(_, _, _, _, _)
\* the for loop of Entry::truncate, at chunk i of entry
TruncateLoop(entry, length, i, new, running_length) ==
    IF i > Len(entry) THEN new
    ELSE LET chunk == entry[i]
             this_len == ChunkLen(chunk)
         IN  IF running_length + this_len > length
             THEN Append(new, ChunkTruncate(chunk, length - running_length))
             ELSE TruncateLoop(entry, length, i + 1, Append(new, chunk),
                               running_length + this_len)

\* Entry::truncate
EntryTruncate(entry, length) == TruncateLoop(entry, length, 1, <<>>, 0)

\* the last line of new with chunk pushed onto it (new.last_mut().unwrap().push)
PushLast(new, chunk) == [new EXCEPT ![Len(new)] = Append(@, chunk)]

\* a fresh line as it would be if the tracked colour were not re-emitted
NewLine_NoColour(new, previous_colour) == Append(new, <<>>)

\* a fresh line (new.push(Self::default())), starting with the tracked colour
\* when there is one; previous_colour is None or Some(chunk)
NewLine(new, previous_colour) == Append(new, previous_colour)

\* the variables of a wrapper's while loop; cursor is 1-based, previous_colour
\* is None or Some(chunk)
LoopState(chunks, cursor, new, running_length, previous_colour) ==
    [chunks |-> chunks, cursor |-> cursor, new |-> new,
     running_length |-> running_length, previous_colour |-> previous_colour]

\* the loop is over: the cursor is past the chunks
LoopDone(ls) == ls.cursor > Len(ls.chunks)

\* the loop state a panic of Chunk::truncate leaves: the Panic chunk is the last
\* one produced and nothing is produced after it
LoopPanic(ls) ==
    [ls EXCEPT !.new = PushLast(@, Panic), !.cursor = Len(ls.chunks) + 1]

\* one iteration of the while loop of Entry::plain_wrap (main.rs:312-342)
PlainWrapStep(ls, length) ==
    LET chunk == ls.chunks[ls.cursor]
        this_len == ChunkLen(chunk)
        colour == IF chunk.type = "colour" THEN Some(chunk) ELSE ls.previous_colour
    IN  IF ls.running_length + this_len > length
        THEN LET cut == ChunkTruncate(chunk, length - ls.running_length)
             IN  IF cut.type = "panic" THEN LoopPanic(ls)
                 ELSE LoopState(
                        [ls.chunks EXCEPT ![ls.cursor] = ChunkSkip(chunk, length - 0)],
                        ls.cursor,
                        NewLine(PushLast(ls.new, cut), colour),
                        0, colour)
        ELSE LoopState(ls.chunks, ls.cursor + 1, PushLast(ls.new, chunk),
                       ls.running_length + this_len, colour)

RECURSIVE PlainWrapLoop(_, _, _, _, _, _)
\* the while loop of Entry::plain_wrap; cursor is 1-based (the state after an
\* iteration is bound as the one element of a set, so that it is computed once)
PlainWrapLoop(chunks, length, cursor, new, running_length, previous_colour) ==
    LET ls == LoopState(chunks, cursor, new, running_length, previous_colour)
    IN  IF LoopDone(ls) THEN new
        ELSE CHOOSE out \in
               {PlainWrapLoop(n.chunks, length, n.cursor, n.new, n.running_length,
                               n.previous_colour) : n \in {PlainWrapStep(ls, length)}} : TRUE

\* Entry::plain_wrap (length >= 1)
PlainWrap(entry, length) == PlainWrapLoop(entry, length, 1, << <<>> >>, 0, None)

RECURSIVE SplitSpace(_, _)
\* str::split(' '): the pieces of value between spaces; cur is the piece being read
SplitSpace(value, cur) ==
    IF value = <<>> THEN <<cur>>
    ELSE IF Head(value) = " " THEN <<cur>> \o SplitSpace(Tail(value), <<>>)
    ELSE SplitSpace(Tail(value), Append(cur, Head(value)))

\* the chunks one text chunk becomes in Entry::split_words
WordsOf(value) ==
    LET pieces == SplitSpace(value, <<>>)
    IN  [k \in 1..Len(pieces) |->
            Text(IF k < Len(pieces) THEN Append(pieces[k], " ") ELSE pieces[k])]

RECURSIVE SplitWords(_)
\* Entry::split_words
SplitWords(entry) ==
    IF entry = <<>> THEN <<>>
    ELSE (IF Head(entry).type = "text" THEN WordsOf(Head(entry).value)
          ELSE <<Head(entry)>>) \o SplitWords(Tail(entry))

\* Entry::word_wrap's iteration as it would be without the test this_len >
\* length (main.rs:393): every overflowing chunk is split
WordWrapStep_SplitsAlways(ls, length) ==
    LET chunk == ls.chunks[ls.cursor]
        this_len == ChunkLen(chunk)
        colour == IF chunk.type = "colour" THEN Some(chunk) ELSE ls.previous_colour
    IN  IF ls.running_length + this_len > length
        THEN LET cut == ChunkTruncate(chunk, length - ls.running_length)
             IN  IF cut.type = "panic" THEN LoopPanic(ls)
                 ELSE LoopState(
                        [ls.chunks EXCEPT ![ls.cursor] =
                            ChunkSkip(chunk, length - ls.running_length)],
                        ls.cursor,
                        NewLine(PushLast(ls.new, cut), colour),
                        0, colour)
        ELSE LoopState(ls.chunks, ls.cursor + 1, PushLast(ls.new, chunk),
                       ls.running_length + this_len, colour)

\* Entry::word_wrap's iteration as it would be if the remainder were computed
\* after the reset of running_length, as Entry::plain_wrap does
WordWrapStep_SkipsWidth(ls, length) ==
    LET chunk == ls.chunks[ls.cursor]
        this_len == ChunkLen(chunk)
        colour == IF chunk.type = "colour" THEN Some(chunk) ELSE ls.previous_colour
    IN  IF ls.running_length + this_len > length
        THEN IF this_len > length
             THEN LET cut == ChunkTruncate(chunk, length - ls.running_length)
                  IN  IF cut.type = "panic" THEN LoopPanic(ls)
                      ELSE LoopState(
                             [ls.chunks EXCEPT ![ls.cursor] = ChunkSkip(chunk, length - 0)],
                             ls.cursor,
                             NewLine(PushLast(ls.new, cut), colour),
                             0, colour)
             ELSE LoopState(ls.chunks, ls.cursor, NewLine(ls.new, colour), 0, colour)
        ELSE LoopState(ls.chunks, ls.cursor + 1, PushLast(ls.new, chunk),
                       ls.running_length + this_len, colour)

\* one iteration of the while loop of Entry::word_wrap (main.rs:384-416)
WordWrapStep(ls, length) ==
    LET chunk == ls.chunks[ls.cursor]
        this_len == ChunkLen(chunk)
        colour == IF chunk.type = "colour" THEN Some(chunk) ELSE ls.previous_colour
    IN  IF ls.running_length + this_len > length
        THEN IF this_len > length
             THEN LET cut == ChunkTruncate(chunk, length - ls.running_length)
                  IN  IF cut.type = "panic" THEN LoopPanic(ls)
                      ELSE LoopState(
                             [ls.chunks EXCEPT ![ls.cursor] =
                                 ChunkSkip(chunk, length - ls.running_length)],
                             ls.cursor,
                             NewLine(PushLast(ls.new, cut), colour),
                             0, colour)
             ELSE LoopState(ls.chunks, ls.cursor, NewLine(ls.new, colour), 0, colour)
        ELSE LoopState(ls.chunks, ls.cursor + 1, PushLast(ls.new, chunk),
                       ls.running_length + this_len, colour)

RECURSIVE WordWrapLoop(_, _, _, _, _, _)
\* the while loop of Entry::word_wrap; cursor is 1-based
WordWrapLoop(chunks, length, cursor, new, running_length, previous_colour) ==
    LET ls == LoopState(chunks, cursor, new, running_length, previous_colour)
    IN  IF LoopDone(ls) THEN new
        ELSE CHOOSE out \in
               {WordWrapLoop(n.chunks, length, n.cursor, n.new, n.running_length,
                               n.previous_colour) : n \in {WordWrapStep(ls, length)}} : TRUE

\* Entry::word_wrap (length >= 1)
WordWrap(entry, length) ==
    CHOOSE out \in {WordWrapLoop(chunks, length, 1, << <<>> >>, 0, None) :
                        chunks \in {SplitWords(entry)}} : TRUE

(***************************************************************************)
(* ScrollPosition (main.rs:525-542)                                        *)
(***************************************************************************)
Absolute(i) == [type |-> "absolute", index |-> i]
Relative(o) == [type |-> "relative", index |-> o]

\* u32::saturating_add_signed as it would be if the addition wrapped: a sum
\* below 0 comes out as a value far above every cursor
SaturatingAddSigned_Wrapping(cursor, o) ==
    IF cursor + o < 0 THEN cursor + o + 2147483647 ELSE cursor + o

\* u32::saturating_add_signed; the cursors and offsets of the model stay far
\* below 2^32, so only the saturation at 0 can happen
SaturatingAddSigned(cursor, o) == Max(0, cursor + o)

\* ScrollPosition::eval
Eval(position, cursor) ==
    Min(IF position.type = "absolute" THEN position.index
        ELSE SaturatingAddSigned(cursor, position.index),
        cursor)

(***************************************************************************)
(* State (main.rs:422-523): a record with the fields of the struct         *)
(***************************************************************************)
\* State::default
StateDefault ==
    [skip |-> 0, entries |-> <<>>, formatted_cache |-> <<>>,
     formatted_cache_width |-> 0]

RECURSIVE Flatten(_)
\* the concatenation of a sequence of sequences (Vec::append in a loop)
Flatten(seqs) == IF seqs = <<>> THEN <<>> ELSE Head(seqs) \o Flatten(Tail(seqs))

\* the lines State::format computes for entries at width (width >= 1) under the
\* configuration flags (for entries whose layout does not panic: the texts of
\* EntryPool are ASCII, which String::truncate cuts anywhere)
Layout(entries, width, line_wrap, word_wrap) ==
    IF ~line_wrap
    THEN [i \in 1..Len(entries) |-> EntryTruncate(entries[i].entry, width)]
    ELSE IF ~word_wrap
    THEN CHOOSE out \in {Flatten(lines) : lines \in
            {[i \in 1..Len(entries) |-> PlainWrap(entries[i].entry, width)]}} : TRUE
    ELSE CHOOSE out \in {Flatten(lines) : lines \in
            {[i \in 1..Len(entries) |-> WordWrap(entries[i].entry, width)]}} : TRUE

\* Vec::insert(index, x) with a 0-based index <= Len(s)
Insert(s, index, x) ==
    SubSeq(s, 1, index) \o <<x>> \o SubSeq(s, index + 1, Len(s))

\* Vec::remove(index) with a 0-based index < Len(s)
RemoveAt(s, index) == SubSeq(s, 1, index) \o SubSeq(s, index + 2, Len(s))

\* Iterator::position: Some(0-based index of the first record with uid id) or None
Position(entries, id) ==
    LET hits == {i \in 1..Len(entries) : entries[i].uid = id}
    IN  IF hits = {} THEN None
        ELSE Some((CHOOSE i \in hits : \A j \in hits : i <= j) - 1)

\* State::add as it would be without the eviction of main.rs:488-491
Add_NoEviction(st, uid_counter, entry, position) ==
    LET len == Len(st.entries)
        index == Min(Eval(position, len + st.skip), st.skip + len + 1)
    IN  IF index < st.skip
        THEN [state |-> [st EXCEPT !.skip = @ + 1], UID |-> uid_counter,
              ret |-> None]
        ELSE LET local == index - st.skip
                 uid == uid_counter + 1
                 rec == [uid |-> uid, entry |-> entry]
             IN  [state |-> [st EXCEPT !.entries =
                                IF len < local THEN Append(st.entries, rec)
                                ELSE Insert(st.entries, local, rec)],
                  UID |-> uid,
                  ret |-> Some(uid)]

\* State::add as it would be if a refused add left skip alone
Add_RefusalKeepsSkip(st, uid_counter, entry, position) ==
    LET len == Len(st.entries)
        index == Min(Eval(position, len + st.skip), st.skip + len + 1)
    IN  IF index < st.skip
        THEN [state |-> st, UID |-> uid_counter, ret |-> None]
        ELSE LET local == index - st.skip
                 uid == uid_counter + 1
                 rec == [uid |-> uid, entry |-> entry]
                 inserted == IF len < local THEN Append(st.entries, rec)
                             ELSE Insert(st.entries, local, rec)
             IN  [state |-> IF Len(inserted) > MAX_ENTRIES
                            THEN [st EXCEPT !.entries = RemoveAt(inserted, 0),
                                            !.skip = @ + 1]
                            ELSE [st EXCEPT !.entries = inserted],
                  UID |-> uid,
                  ret |-> Some(uid)]

\* State::add as it would be if the uid were the number of retained records
\* instead of the value of a counter
Add_UidFromLength(st, uid_counter, entry, position) ==
    LET len == Len(st.entries)
        index == Min(Eval(position, len + st.skip), st.skip + len + 1)
    IN  IF index < st.skip
        THEN [state |-> [st EXCEPT !.skip = @ + 1], UID |-> uid_counter,
              ret |-> None]
        ELSE LET local == index - st.skip
                 uid == len + 1
                 rec == [uid |-> uid, entry |-> entry]
                 inserted == IF len < local THEN Append(st.entries, rec)
                             ELSE Insert(st.entries, local, rec)
             IN  [state |-> IF Len(inserted) > MAX_ENTRIES
                            THEN [st EXCEPT !.entries = RemoveAt(inserted, 0),
                                            !.skip = @ + 1]
                            ELSE [st EXCEPT !.entries = inserted],
                  UID |-> uid_counter + 1,
                  ret |-> Some(uid)]

\* State::add as it would be if the eviction dropped the newest record (pop)
\* instead of the oldest
Add_EvictNewest(st, uid_counter, entry, position) ==
    LET len == Len(st.entries)
        index == Min(Eval(position, len + st.skip), st.skip + len + 1)
    IN  IF index < st.skip
        THEN [state |-> [st EXCEPT !.skip = @ + 1], UID |-> uid_counter,
              ret |-> None]
        ELSE LET local == index - st.skip
                 uid == uid_counter + 1
                 rec == [uid |-> uid, entry |-> entry]
                 inserted == IF len < local THEN Append(st.entries, rec)
                             ELSE Insert(st.entries, local, rec)
             IN  [state |-> IF Len(inserted) > MAX_ENTRIES
                            THEN [st EXCEPT
                                    !.entries = RemoveAt(inserted, Len(inserted) - 1),
                                    !.skip = @ + 1]
                            ELSE [st EXCEPT !.entries = inserted],
                  UID |-> uid,
                  ret |-> Some(uid)]

\* State::add with gen_uid: st is the State, uid_counter the value of UID;
\* the result holds the new State, the new counter and the returned Option<u32>
Add(st, uid_counter, entry, position) ==
    LET len == Len(st.entries)
        index == Min(Eval(position, len + st.skip), st.skip + len + 1)
    IN  IF index < st.skip
        THEN [state |-> [st EXCEPT !.skip = @ + 1], UID |-> uid_counter,
              ret |-> None]
        ELSE LET local == index - st.skip
                 uid == uid_counter + 1
                 rec == [uid |-> uid, entry |-> entry]
                 inserted == IF len < local THEN Append(st.entries, rec)
                             ELSE Insert(st.entries, local, rec)
             IN  [state |-> IF Len(inserted) > MAX_ENTRIES
                            THEN [st EXCEPT !.entries = RemoveAt(inserted, 0),
                                            !.skip = @ + 1]
                            ELSE [st EXCEPT !.entries = inserted],
                  UID |-> uid,
                  ret |-> Some(uid)]

\* State::remove as it would be if a removal gave its logical position back
Remove_DecrementsSkip(st, id) ==
    LET index == Position(st.entries, id)
    IN  IF index # None
        THEN [state |-> [st EXCEPT !.entries = RemoveAt(@, index[1]),
                                   !.skip = Max(0, @ - 1)],
              ret |-> TRUE]
        ELSE [state |-> st, ret |-> FALSE]

\* State::remove
Remove(st, id) ==
    LET index == Position(st.entries, id)
    IN  IF index # None
        THEN [state |-> [st EXCEPT !.entries = RemoveAt(@, index[1])],
              ret |-> TRUE]
        ELSE [state |-> st, ret |-> FALSE]

\* State::update as it would be if an unknown uid were reported as updated
Update_ReportsSuccess(st, id, new) ==
    LET index == Position(st.entries, id)
    IN  IF index # None
        THEN [state |-> [st EXCEPT !.entries[index[1] + 1].entry = new],
              ret |-> TRUE]
        ELSE [state |-> st, ret |-> TRUE]

\* State::update
Update(st, id, new) ==
    LET index == Position(st.entries, id)
    IN  IF index # None
        THEN [state |-> [st EXCEPT !.entries[index[1] + 1].entry = new],
              ret |-> TRUE]
        ELSE [state |-> st, ret |-> FALSE]

\* State::format under the configuration flags
Format(st, width, line_wrap, word_wrap) ==
    IF width = 0 THEN st
    ELSE [st EXCEPT !.formatted_cache_width = width,
                    !.formatted_cache =
                        Layout(st.entries, width, line_wrap, word_wrap)]

(***************************************************************************)
(* Requests and responses (main.rs:544-596)                                *)
(***************************************************************************)
AddEntry(id, position, entry) ==
    [id |-> id, type |-> "add", position |-> position, entry |-> entry]
RemoveEntry(id, uid) == [id |-> id, type |-> "remove", uid |-> uid]
UpdateEntry(id, uid, new) == [id |-> id, type |-> "update", uid |-> uid, new |-> new]
Multiple(id, requests) == [id |-> id, type |-> "multiple", requests |-> requests]

\* ScrollResponseVariant
Created(uid) == [type |-> "created", uid |-> uid]
Updated == [type |-> "updated"]
Removed == [type |-> "removed"]
NotFound == [type |-> "not found"]
Recieved == [type |-> "recieved"]
MultipleResponse(responses) == [type |-> "multiple", responses |-> responses]

\* ScrollResponse::new
ScrollResponse(id, content) == [id |-> id, content |-> content]

(***************************************************************************)
(* The inputs of the model                                                 *)
(***************************************************************************)
\* the display widths and heights a terminal reports
Widths == {0, 2, 3}
Heights == {2}

\* the entries requests carry
EntryA == <<Colour("red"), Text(<<"a", "b", " ", "c", "d">>)>>
EntryB == <<Text(<<"x", "y", "z">>)>>
EntryPool == {EntryA, EntryB}

\* the positions add requests carry: the start of history, the second logical
\* position, the logical end, and one before the logical end
PositionPool == {Absolute(0), Absolute(1), Relative(0), Relative(-1)}

\* the uids remove and update requests name
UidPool == 1..MaxUid

\* the correlation ids of top-level leaf requests and of top-level batches
LeafIds == {1}
BatchIds == {2}

\* the leaf requests with correlation id id
Leaves(id) ==
    {AddEntry(id, p, e) : p \in PositionPool, e \in EntryPool}
    \cup {RemoveEntry(id, u) : u \in UidPool}
    \cup {UpdateEntry(id, u, e) : u \in UidPool, e \in EntryPool}

\* the members of batches, each with its own correlation id
Members ==
    {AddEntry(11, Relative(0), EntryA), AddEntry(12, Absolute(0), EntryB),
     RemoveEntry(13, 1)}

\* the sequences over S of length at most 2
UpTo2(S) == {<<>>} \cup {<<a>> : a \in S} \cup {<<a, b>> : a \in S, b \in S}

\* the batches with correlation id id: flat ones, and ones whose first member is
\* itself a batch
Batches(id) ==
    {Multiple(id, ms) : ms \in UpTo2(Members)}
    \cup {Multiple(id, <<Multiple(20, <<a>>), b>>) : a \in Members, b \in Members}
    \cup {Multiple(id, <<Multiple(20, <<>>)>>)}

\* the messages the transport may deliver
Requests ==
    UNION {Leaves(id) : id \in LeafIds} \cup UNION {Batches(id) : id \in BatchIds}

\* the configurations LINE_WRAP, WORD_WRAP the environment may select: hard
\* wrap (the default), truncate-only and word wrap
Configs == {<<TRUE, FALSE>>, <<FALSE, FALSE>>, <<TRUE, TRUE>>}

(***************************************************************************)
(* The event loop of main (main.rs:21-182)                                 *)
(***************************************************************************)
VARIABLES
    LINE_WRAP,   \* the configuration flags, set once at startup
    WORD_WRAP,
    UID,         \* the counter of gen_uid
    state,       \* the State
    term_size,   \* the Dimension of the display
    pc,          \* where main is: "recv", "loop" (draining reqests), "join"
    event,       \* the event being handled, None at "recv"
    reqests,     \* the work queue
    res,         \* the responses accumulated for the message
    updated,     \* whether a request of the message mutated the state
    set,         \* the tasks spawned and awaited at the end of the handling
    formats,     \* history: calls of State::format while handling the event
    renders,     \* history: calls of render while handling the event
    issued,      \* history: the uids add has returned, in call order
    appended,    \* history: Some(the entries added) while every request so far
                 \* was an add at the logical end, None afterwards
    call         \* Some(the call of a function followed on its own) under
                 \* SpecCalls, None in the event loop

vars == <<LINE_WRAP, WORD_WRAP, UID, state, term_size, pc, event, reqests, res,
          updated, set, formats, renders, issued, appended, call>>

RECURSIVE Drain(_, _, _)
\* the State and the uid counter that draining the work queue queue leaves,
\* from State st and counter uid_counter (the effect of main.rs:88-138 on them)
Drain(queue, st, uid_counter) ==
    IF queue = <<>> THEN [state |-> st, UID |-> uid_counter]
    ELSE LET req == Head(queue)
         IN  IF req.type = "add"
             THEN LET a == Add(st, uid_counter, req.entry, req.position)
                  IN  Drain(Tail(queue), a.state, a.UID)
             ELSE IF req.type = "remove"
             THEN Drain(Tail(queue), Remove(st, req.uid).state, uid_counter)
             ELSE IF req.type = "update"
             THEN Drain(Tail(queue), Update(st, req.uid, req.new).state, uid_counter)
             ELSE Drain(Tail(queue) \o req.requests, st, uid_counter)

\* handling req keeps the uid counter and skip within the bounds of the model
WithinBounds(req) ==
    LET end == Drain(<<req>>, state, UID)
    IN  end.UID <= MaxUid /\ end.state.skip <= MaxSkip

Dimension(width, height) == [width |-> width, height |-> height]

\* the tasks main awaits
RenderAll == [task |-> "renderall"]
Message(response) == [task |-> "message", tag |-> "!scroll-response", content |-> response]

\* render as it would be if it re-formatted on every call
Render_AlwaysFormats(st, size, line_wrap, word_wrap) ==
    IF size.width = 0 THEN [state |-> st, formats |-> 0]
    ELSE [state |-> Format(st, size.width, line_wrap, word_wrap), formats |-> 1]

\* render: the State it leaves and the number of calls of State::format it makes
\* (the drawing of the rows on the client is not modelled)
Render(st, size, line_wrap, word_wrap) ==
    IF size.width = 0 THEN [state |-> st, formats |-> 0]
    ELSE IF size.width # st.formatted_cache_width
    THEN [state |-> Format(st, size.width, line_wrap, word_wrap), formats |-> 1]
    ELSE [state |-> st, formats |-> 0]

Init ==
    /\ \E c \in Configs : LINE_WRAP = c[1] /\ WORD_WRAP = c[2]
    /\ UID = 0
    /\ state = StateDefault
    /\ \E w \in Widths, h \in Heights : term_size = Dimension(w, h)
    /\ pc = "recv"
    /\ event = None
    /\ reqests = <<>>
    /\ res = <<>>
    /\ updated = FALSE
    /\ set = <<>>
    /\ formats = 0
    /\ renders = 0
    /\ issued = <<>>
    /\ appended = Some(<<>>)
    /\ call = None

\* EventVariant::Resize (main.rs:70-74): up to the await of renderall
Resize(width, height) ==
    /\ pc = "recv"
    /\ LET size == Dimension(width, height)
           r == Render(state, size, LINE_WRAP, WORD_WRAP)
       IN  /\ term_size' = size
           /\ state' = r.state
           /\ formats' = r.formats
           /\ event' = Some([type |-> "resize", width |-> width, height |-> height])
    /\ renders' = 1
    /\ set' = <<RenderAll>>
    /\ pc' = "join"
    /\ UNCHANGED <<call, LINE_WRAP, WORD_WRAP, UID, reqests, res, updated, issued, appended>>

\* EventVariant::Message (main.rs:75-86): the request is queued
RecvMessage(req) ==
    /\ pc = "recv"
    /\ WithinBounds(req)
    /\ event' = Some([type |-> "message", content |-> req])
    /\ reqests' = <<req>>
    /\ res' = <<>>
    /\ updated' = FALSE
    /\ pc' = "loop"
    /\ UNCHANGED <<call, LINE_WRAP, WORD_WRAP, UID, state, term_size, set, formats,
                   renders, issued, appended>>

\* the AddEntry arm (main.rs:90-103) for the request popped from the queue
HandleAdd ==
    /\ pc = "loop" /\ reqests # <<>> /\ Head(reqests).type = "add"
    /\ LET req == Head(reqests)
           a == Add(state, UID, req.entry, req.position)
           at_end == Eval(req.position, Len(state.entries) + state.skip)
                         = Len(state.entries) + state.skip
       IN  /\ state' = a.state
           /\ UID' = a.UID
           /\ IF a.ret # None
              THEN /\ res' = Append(res, ScrollResponse(req.id, Created(a.ret[1])))
                   /\ updated' = TRUE
                   /\ issued' = Append(issued, a.ret[1])
              ELSE /\ res' = Append(res, ScrollResponse(req.id, NotFound))
                   /\ UNCHANGED <<updated, issued>>
           /\ appended' = IF appended # None /\ at_end
                          THEN Some(Append(appended[1], req.entry))
                          ELSE None
    /\ reqests' = Tail(reqests)
    /\ UNCHANGED <<call, LINE_WRAP, WORD_WRAP, term_size, pc, event, set, formats, renders>>

\* the RemoveEntry arm (main.rs:104-117)
HandleRemove ==
    /\ pc = "loop" /\ reqests # <<>> /\ Head(reqests).type = "remove"
    /\ LET req == Head(reqests)
           r == Remove(state, req.uid)
       IN  /\ state' = r.state
           /\ res' = Append(res, ScrollResponse(req.id,
                                   IF r.ret THEN Removed ELSE NotFound))
           /\ updated' = (updated \/ r.ret)
    /\ reqests' = Tail(reqests)
    /\ appended' = None
    /\ UNCHANGED <<call, LINE_WRAP, WORD_WRAP, UID, term_size, pc, event, set, formats,
                   renders, issued>>

\* the UpdateEntry arm (main.rs:118-131)
HandleUpdate ==
    /\ pc = "loop" /\ reqests # <<>> /\ Head(reqests).type = "update"
    /\ LET req == Head(reqests)
           r == Update(state, req.uid, req.new)
       IN  /\ state' = r.state
           /\ res' = Append(res, ScrollResponse(req.id,
                                   IF r.ret THEN Updated ELSE NotFound))
           /\ updated' = (updated \/ r.ret)
    /\ reqests' = Tail(reqests)
    /\ appended' = None
    /\ UNCHANGED <<call, LINE_WRAP, WORD_WRAP, UID, term_size, pc, event, set, formats,
                   renders, issued>>

\* the Multiple arm as it would be if the nested requests went to the front of
\* the queue (depth first) instead of the back
HandleMultiple_DepthFirst ==
    /\ pc = "loop" /\ reqests # <<>> /\ Head(reqests).type = "multiple"
    /\ LET req == Head(reqests)
       IN  /\ reqests' = req.requests \o Tail(reqests)
           /\ res' = Append(res, ScrollResponse(req.id, Recieved))
    /\ UNCHANGED <<call, LINE_WRAP, WORD_WRAP, UID, state, term_size, pc, event, updated,
                   set, formats, renders, issued, appended>>

\* the Multiple arm as it would be without the acknowledgement
HandleMultiple_NoAck ==
    /\ pc = "loop" /\ reqests # <<>> /\ Head(reqests).type = "multiple"
    /\ reqests' = Tail(reqests) \o Head(reqests).requests
    /\ UNCHANGED <<call, LINE_WRAP, WORD_WRAP, UID, state, term_size, pc, event, updated,
                   set, formats, renders, issued, appended, res>>

\* the Multiple arm as it would be if the Multiple stayed at the front of the
\* queue
HandleMultiple_KeepsHead ==
    /\ pc = "loop" /\ reqests # <<>> /\ Head(reqests).type = "multiple"
    /\ LET req == Head(reqests)
       IN  /\ reqests' = reqests \o req.requests
           /\ res' = Append(res, ScrollResponse(req.id, Recieved))
    /\ UNCHANGED <<call, LINE_WRAP, WORD_WRAP, UID, state, term_size, pc, event, updated,
                   set, formats, renders, issued, appended>>

\* the Multiple arm (main.rs:132-136)
HandleMultiple ==
    /\ pc = "loop" /\ reqests # <<>> /\ Head(reqests).type = "multiple"
    /\ LET req == Head(reqests)
       IN  /\ reqests' = Tail(reqests) \o req.requests
           /\ res' = Append(res, ScrollResponse(req.id, Recieved))
    /\ UNCHANGED <<call, LINE_WRAP, WORD_WRAP, UID, state, term_size, pc, event, updated,
                   set, formats, renders, issued, appended>>

\* the shaping as it would be if the envelope carried the id of the last response
Shape_LastId(responses) ==
    IF Len(responses) = 1 THEN Some(Message(responses[1]))
    ELSE IF Len(responses) > 1
    THEN Some(Message(ScrollResponse(responses[Len(responses)].id,
            MultipleResponse([i \in 1..Len(responses) |-> responses[i].content]))))
    ELSE None

\* the shaping as it would be if the envelope left out the first response
Shape_WithoutFirst(responses) ==
    IF Len(responses) = 1 THEN Some(Message(responses[1]))
    ELSE IF Len(responses) > 1
    THEN Some(Message(ScrollResponse(responses[1].id,
            MultipleResponse([i \in 1..Len(responses) - 1 |-> responses[i + 1].content]))))
    ELSE None

\* the message ScrollResponse shaping sends for the accumulated responses
\* (main.rs:148-175): None when there is none
Shape(responses) ==
    IF Len(responses) = 1 THEN Some(Message(responses[1]))
    ELSE IF Len(responses) > 1
    THEN Some(Message(ScrollResponse(responses[1].id,
            MultipleResponse([i \in 1..Len(responses) |-> responses[i].content]))))
    ELSE None

\* the queue is empty (main.rs:140-175): re-layout and render if a request
\* mutated the state, spawn the tasks
Finish ==
    /\ pc = "loop" /\ reqests = <<>>
    /\ IF updated
       THEN LET formatted == Format(state, term_size.width, LINE_WRAP, WORD_WRAP)
                r == Render(formatted, term_size, LINE_WRAP, WORD_WRAP)
            IN  /\ state' = r.state
                /\ formats' = 1 + r.formats
                /\ renders' = 1
                /\ set' = <<RenderAll>> \o Shape(res)
       ELSE /\ set' = Shape(res)
            /\ UNCHANGED <<state, formats, renders>>
    /\ res' = <<>>
    /\ pc' = "join"
    /\ UNCHANGED <<call, LINE_WRAP, WORD_WRAP, UID, term_size, event, reqests, updated,
                   issued, appended>>

\* every spawned task has been awaited (main.rs:73, 177): back to recv
Join ==
    /\ pc = "join"
    /\ set' = <<>>
    /\ event' = None
    /\ updated' = FALSE
    /\ formats' = 0
    /\ renders' = 0
    /\ pc' = "recv"
    /\ UNCHANGED <<call, LINE_WRAP, WORD_WRAP, UID, state, term_size, reqests, res,
                   issued, appended>>

Next ==
    \/ \E w \in Widths, h \in Heights : Resize(w, h)
    \/ \E req \in Requests : RecvMessage(req)
    \/ HandleAdd
    \/ HandleRemove
    \/ HandleUpdate
    \/ HandleMultiple
    \/ Finish
    \/ Join

Spec == Init /\ [][Next]_vars

(***************************************************************************)
(* The functions called on their own: ScrollPosition::eval, State::format  *)
(* and the line wrappers, each on inputs drawn from bounded sets.  The     *)
(* while loops of the wrappers are followed one iteration at a time.       *)
(***************************************************************************)
\* a layout holds the chunk a panic of Chunk::truncate leaves
Panicked(lines) ==
    \E k \in 1..Len(lines) : \E i \in 1..Len(lines[k]) : lines[k][i].type = "panic"

\* the positions eval is called with: every index and offset around the cursor
\* range, and an offset near i32::MIN
EvalPositions ==
    {Absolute(i) : i \in 0..(MaxCursor + 1)}
    \cup {Relative(o) : o \in (-(MaxCursor + 2))..(MaxCursor + 1)}
    \cup {Relative(-2147483647)}

\* the characters of the texts laid out: a letter, the space, a two-byte character
Alphabet == {"a", " ", Wide}

\* the texts of at most n characters
Texts(n) == UNION {[1..k -> Alphabet] : k \in 0..n}

\* the chunks of the entries of several chunks
ChunkPool == {Colour("red"), Colour("blue")} \cup {Text(t) : t \in Texts(MaxText)}

\* the entries laid out on their own: up to MaxChunks short chunks, or one text
\* chunk of up to MaxLong characters
EntryInputs ==
    UNION {[1..k -> ChunkPool] : k \in 0..MaxChunks}
    \cup {<<Text(t)>> : t \in Texts(MaxLong)}

\* an entry whose text holds a two-byte character
EntryC == <<Text(<<"a", Wide, "b">>)>>

\* the buffers State::format is called on: at most MAX_ENTRIES records
FormatInputs ==
    LET pool == {EntryA, EntryB, EntryC}
    IN  {[StateDefault EXCEPT !.entries = recs] :
            recs \in {<<>>}
                \cup {<<[uid |-> 1, entry |-> a]>> : a \in pool}
                \cup {<<[uid |-> 1, entry |-> a], [uid |-> 2, entry |-> b]>> :
                          a \in pool, b \in pool}}

\* the calls followed under the configuration line_wrap, word_wrap: the wrapper
\* named is the one State::format invokes under it (main.rs:445-465)
Wrapper(line_wrap, word_wrap) ==
    IF ~line_wrap THEN "truncate" ELSE IF ~word_wrap THEN "plain_wrap" ELSE "word_wrap"

EvalCalls ==
    {[fn |-> "eval", position |-> p, cursor |-> c, pc |-> "call", result |-> None] :
        p \in EvalPositions, c \in 0..MaxCursor}

FormatCalls ==
    {[fn |-> "format", st |-> st, width |-> w, pc |-> "call", result |-> None] :
        st \in FormatInputs, w \in 0..MaxWidth}

\* a call of a wrapper at its entry: the locals of main.rs:304-310, 376-382
WrapperCalls(fn) ==
    {[fn |-> fn, entry |-> e, length |-> w, pc |-> "run",
      ls |-> LoopState(IF fn = "word_wrap" THEN SplitWords(e) ELSE e,
                       1, << <<>> >>, 0, None)] :
        e \in EntryInputs, w \in 1..MaxWidth}

InitCalls ==
    /\ \E c \in Configs :
          /\ LINE_WRAP = c[1] /\ WORD_WRAP = c[2]
          /\ \E k \in EvalCalls \cup FormatCalls \cup WrapperCalls(Wrapper(c[1], c[2])) :
                call = Some(k)
    /\ UID = 0
    /\ state = StateDefault
    /\ term_size = Dimension(0, 0)
    /\ pc = "recv"
    /\ event = None
    /\ reqests = <<>>
    /\ res = <<>>
    /\ updated = FALSE
    /\ set = <<>>
    /\ formats = 0
    /\ renders = 0
    /\ issued = <<>>
    /\ appended = Some(<<>>)

\* the call followed is a call of fn at pc at
CallAt(fn, at) == call # None /\ call[1].fn = fn /\ call[1].pc = at

program == <<LINE_WRAP, WORD_WRAP, UID, state, term_size, pc, event, reqests, res,
             updated, set, formats, renders, issued, appended>>

\* ScrollPosition::eval (main.rs:534-542)
EvalCall ==
    /\ CallAt("eval", "call")
    /\ call' = Some([call[1] EXCEPT
                       !.pc = "done",
                       !.result = Some(Eval(call[1].position, call[1].cursor))])
    /\ UNCHANGED program

\* State::format (main.rs:439-466) under the configuration
FormatCall ==
    /\ CallAt("format", "call")
    /\ LET st == Format(call[1].st, call[1].width, LINE_WRAP, WORD_WRAP)
       IN  call' = Some(IF Panicked(st.formatted_cache)
                        THEN [call[1] EXCEPT !.pc = "panic"]
                        ELSE [call[1] EXCEPT !.pc = "done", !.result = Some(st)])
    /\ UNCHANGED program

\* Entry::truncate (main.rs:284-301)
TruncateCall ==
    /\ CallAt("truncate", "run")
    /\ LET new == EntryTruncate(call[1].entry, call[1].length)
       IN  call' = Some([call[1] EXCEPT
                          !.pc = IF Panicked(<<new>>) THEN "panic" ELSE "done",
                          !.ls.new = <<new>>])
    /\ UNCHANGED program

\* one iteration of the while loop of Entry::plain_wrap (main.rs:312-342)
PlainWrapIter ==
    /\ CallAt("plain_wrap", "run")
    /\ ~LoopDone(call[1].ls)
    /\ LET n == PlainWrapStep(call[1].ls, call[1].length)
       IN  call' = Some([call[1] EXCEPT
                          !.pc = IF Panicked(n.new) THEN "panic" ELSE "run",
                          !.ls = n])
    /\ UNCHANGED program

\* Entry::plain_wrap returns new (main.rs:344)
PlainWrapReturn ==
    /\ CallAt("plain_wrap", "run")
    /\ LoopDone(call[1].ls)
    /\ call' = Some([call[1] EXCEPT !.pc = "done"])
    /\ UNCHANGED program

\* one iteration of the while loop of Entry::word_wrap (main.rs:384-416)
WordWrapIter ==
    /\ CallAt("word_wrap", "run")
    /\ ~LoopDone(call[1].ls)
    /\ LET n == WordWrapStep(call[1].ls, call[1].length)
       IN  call' = Some([call[1] EXCEPT
                          !.pc = IF Panicked(n.new) THEN "panic" ELSE "run",
                          !.ls = n])
    /\ UNCHANGED program

\* Entry::word_wrap returns new (main.rs:418)
WordWrapReturn ==
    /\ CallAt("word_wrap", "run")
    /\ LoopDone(call[1].ls)
    /\ call' = Some([call[1] EXCEPT !.pc = "done"])
    /\ UNCHANGED program

NextCalls ==
    \/ EvalCall
    \/ FormatCall
    \/ TruncateCall
    \/ PlainWrapIter
    \/ PlainWrapReturn
    \/ WordWrapIter
    \/ WordWrapReturn

SpecCalls == InitCalls /\ [][NextCalls]_vars

(***************************************************************************)
(* The program and the functions called on their own, under the fairness   *)
(* of sequential code: main is one task that runs the work queue loop, the *)
(* layout and the spawning of the tasks without waiting for any input, and *)
(* a function that was called runs until it returns or panics.             *)
(***************************************************************************)
InitAll == Init \/ InitCalls

\* the steps main takes without waiting for an event
Handle ==
    \/ HandleAdd
    \/ HandleRemove
    \/ HandleUpdate
    \/ HandleMultiple
    \/ Finish
    \/ Join

\* the messages delivered under FairSpec: the batches that hold a batch, and a
\* leaf request of every kind
NestedRequests ==
    {Multiple(2, <<Multiple(20, <<a>>), b>>) : a \in Members, b \in Members}
    \cup {Multiple(2, <<Multiple(20, <<>>)>>)}
    \cup {AddEntry(1, Absolute(0), EntryA), RemoveEntry(1, 2), UpdateEntry(1, 1, EntryB)}

NextAll ==
    \/ call = None /\ \E w \in Widths, h \in Heights : Resize(w, h)
    \/ call = None /\ \E req \in NestedRequests : RecvMessage(req)
    \/ Handle
    \/ NextCalls

FairSpec == InitAll /\ [][NextAll]_vars /\ WF_vars(Handle) /\ WF_vars(NextCalls)

(***************************************************************************)
(* The claims                                                              *)
(***************************************************************************)
\* the request at the front of the work queue is about to be popped
Popping(type) == pc = "loop" /\ reqests # <<>> /\ Head(reqests).type = type

\* the uids of the retained records
RetainedUids == {state.entries[i].uid : i \in 1..Len(state.entries)}

\* the response variants of the message the handling sent, <<>> when it sent none
SentResponses ==
    LET msgs == SelectSeq(set, LAMBDA t : t.task = "message")
    IN  IF msgs = <<>> THEN <<>>
        ELSE IF msgs[1].content.content.type = "multiple"
        THEN msgs[1].content.content.responses
        ELSE <<msgs[1].content.content>>

\* C1: at every render performed with display width >= 1, formatted_cache_width
\* is the display width and formatted_cache is the layout of the retained
\* entries at that width.
C1_CacheFreshAtRender ==
    (pc = "join" /\ renders >= 1 /\ term_size.width >= 1) =>
        /\ state.formatted_cache_width = term_size.width
        /\ state.formatted_cache =
              Layout(state.entries, term_size.width, LINE_WRAP, WORD_WRAP)

\* C2: the number of retained entries never exceeds MAX_ENTRIES.
C2_Bounded == Len(state.entries) <= MAX_ENTRIES

\* C2 witness: the buffer is full after adds at the logical end only, one more
\* than it retains
C2_Witness ==
    /\ appended # None /\ Len(appended[1]) = MAX_ENTRIES + 1
    /\ Len(state.entries) = MAX_ENTRIES

\* C3: the uids add returns are strictly increasing in call order, and the
\* retained records carry pairwise distinct uids, each one a uid add returned.
C3_UidsIncreasingDistinct ==
    /\ \A i, j \in 1..Len(issued) : i < j => issued[i] < issued[j]
    /\ \A i, j \in 1..Len(state.entries) :
          i # j => state.entries[i].uid # state.entries[j].uid
    /\ \A u \in RetainedUids : \E i \in 1..Len(issued) : issued[i] = u

\* C3 witness: three adds without eviction or refusal, the first two records
\* removed again: the third add came after a removal
C3_Witness ==
    /\ Len(issued) = 3 /\ state.skip = 0
    /\ Len(state.entries) = 1 /\ state.entries[1].uid = issued[3]

\* C4: skip never decreases; it changes only when an add request is applied,
\* by exactly +1 (remove, update, format and resize leave it unchanged).
C4_SkipMonotone ==
    [][/\ state'.skip >= state.skip
       /\ state'.skip # state.skip =>
             (Popping("add") /\ state'.skip = state.skip + 1)]_vars

\* C4 witness: with skip >= 1, a removal succeeded and the handling re-formatted
C4_Witness ==
    /\ pc = "join" /\ state.skip >= 1 /\ formats >= 1
    /\ \E i \in 1..Len(SentResponses) : SentResponses[i] = Removed

\* the step applies an add at the logical end to a full buffer: the oldest
\* record goes, the new one is last, skip grows by one
C5_EvictionStep ==
    (/\ Popping("add")
     /\ Eval(Head(reqests).position, Len(state.entries) + state.skip)
          = Len(state.entries) + state.skip
     /\ Len(state.entries) + 1 > MAX_ENTRIES)
    => /\ state'.entries =
            Tail(state.entries) \o <<[uid |-> UID', entry |-> Head(reqests).entry]>>
       /\ UID' = UID + 1
       /\ state'.skip = state.skip + 1

\* with MAX_ENTRIES = 2, three adds at the logical end of the empty buffer
\* leave the 2nd and the 3rd entry, in that order, and skip = 1
C5_Example ==
    (MAX_ENTRIES = 2 /\ appended # None /\ Len(appended[1]) = 3) =>
        /\ [i \in 1..Len(state.entries) |-> state.entries[i].entry]
             = <<appended[1][2], appended[1][3]>>
        /\ state.skip = 1

\* C5: an add at the logical end that makes the entries exceed MAX_ENTRIES
\* evicts exactly the record at position 0 and increments skip, the other
\* records keeping their order with the new record last; with MAX_ENTRIES = 2,
\* three adds at the end of the empty buffer leave the 2nd and 3rd, skip = 1.
C5_EvictOldest == [][C5_EvictionStep]_vars /\ []C5_Example

\* C5 witness: three adds at the logical end of the empty buffer, the first
\* two of different entries
C5_Witness ==
    /\ appended # None /\ Len(appended[1]) = 3
    /\ appended[1][1] # appended[1][2]
    /\ state.skip = 1

\* the messages among the spawned tasks
SentMessages == SelectSeq(set, LAMBDA t : t.task = "message")

\* the renderall tasks among the spawned tasks
SentRenders == SelectSeq(set, LAMBDA t : t.task = "renderall")

\* the message being handled is req
Handling(req) == event # None /\ event[1].type = "message" /\ event[1].content = req

\* a message is being handled
HandlingMessage == event # None /\ event[1].type = "message"

\* the step applies an add whose resolved index is below skip
C6_RefusedStep ==
    (/\ Popping("add")
     /\ Eval(Head(reqests).position, Len(state.entries) + state.skip) < state.skip)
    => /\ state' = [state EXCEPT !.skip = @ + 1]
       /\ UID' = UID
       /\ issued' = issued
       /\ updated' = updated
       /\ res' = Append(res, ScrollResponse(Head(reqests).id, NotFound))

\* C6: an add whose resolved index is below skip stores nothing: it is answered
\* with NotFound, the entries (and the cache) are unchanged, no uid is consumed,
\* the round is not marked as mutated, and skip grows by exactly one.
C6_RefusedAdd == [][C6_RefusedStep]_vars

\* C6 witness: a single add was answered NotFound while records are retained
C6_Witness ==
    /\ pc = "join" /\ HandlingMessage /\ event[1].content.type = "add"
    /\ SentResponses = <<NotFound>>
    /\ state.entries # <<>>
    /\ SentRenders = <<>>

\* C7: while the requests of a message are applied nothing is formatted or
\* rendered; once the queue is drained, format is called, render is called and
\* renderall is spawned exactly once if a request mutated the state (it was
\* answered created, removed or updated), and not at all otherwise.
C7_OneRenderPerMessage ==
    /\ pc = "loop" => (formats = 0 /\ renders = 0 /\ set = <<>>)
    /\ (pc = "join" /\ HandlingMessage) =>
          LET n == IF \E i \in 1..Len(SentResponses) :
                        SentResponses[i].type \in {"created", "removed", "updated"}
                   THEN 1 ELSE 0
          IN  formats = n /\ renders = n /\ Len(SentRenders) = n

\* C7 witness: a batch whose first member is a batch, two of its leaf requests
\* answered created, handled with one format
C7_Witness ==
    /\ pc = "join" /\ HandlingMessage /\ event[1].content.type = "multiple"
    /\ Len(event[1].content.requests) = 2
    /\ event[1].content.requests[1].type = "multiple"
    /\ Len(SelectSeq(SentResponses, LAMBDA r : r.type = "created")) = 2
    /\ formats = 1 /\ term_size.width >= 1

\* the step shapes the accumulated responses res
C8_ShapingStep ==
    (pc = "loop" /\ reqests = <<>>) =>
        LET msgs == SelectSeq(set', LAMBDA t : t.task = "message")
        IN  /\ Len(res) = 0 => msgs = <<>>
            /\ Len(res) = 1 =>
                  /\ Len(msgs) = 1
                  /\ msgs[1].content = [id |-> res[1].id, content |-> res[1].content]
            /\ Len(res) > 1 =>
                  /\ Len(msgs) = 1
                  /\ msgs[1].content.id = res[1].id
                  /\ msgs[1].content.content.type = "multiple"
                  /\ msgs[1].content.content.responses
                       = [i \in 1..Len(res) |-> res[i].content]

\* C8: one accumulated response is sent directly with its own id; more than one
\* are sent as one Multiple envelope holding every response variant in
\* accumulation order under the id of the first; none, and nothing is sent.
C8_Shaping == [][C8_ShapingStep]_vars

\* C8 witness: an envelope of three responses whose last one was accumulated
\* under another id than the envelope's
C8_Witness ==
    /\ pc = "join" /\ Handling(Multiple(2, <<Multiple(20, <<RemoveEntry(13, 1)>>),
                                              AddEntry(11, Relative(0), EntryA)>>))
    /\ Len(SentMessages) = 1
    /\ SentMessages[1].content.id = 2
    /\ Len(SentResponses) = 4

\* a batch of exactly two add requests has been handled and both were stored
C9_TwoAddsHandled ==
    /\ pc = "join" /\ HandlingMessage /\ event[1].content.type = "multiple"
    /\ Len(event[1].content.requests) = 2
    /\ event[1].content.requests[1].type = "add"
    /\ event[1].content.requests[2].type = "add"
    /\ Len(SelectSeq(SentResponses, LAMBDA r : r.type = "created")) = 2

\* C9 as stated: the batch yields a recieved acknowledgement for the outer id and
\* then an envelope under the outer id whose responses are [created, created].
C9_AckThenEnvelope ==
    C9_TwoAddsHandled =>
        /\ Len(SentMessages) = 2
        /\ SentMessages[1].content = ScrollResponse(event[1].content.id, Recieved)
        /\ SentMessages[2].content.id = event[1].content.id
        /\ SentMessages[2].content.content.type = "multiple"
        /\ Len(SentMessages[2].content.content.responses) = 2
        /\ \A i \in 1..2 :
              SentMessages[2].content.content.responses[i].type = "created"

\* C9 amended: a batch of two add requests that are both stored yields exactly
\* one message, an envelope under the outer request's id whose responses are
\* [recieved, created, created], the created uids being the two most recently
\* assigned, in order; no separate acknowledgement is sent.
C9_SingleEnvelope ==
    C9_TwoAddsHandled =>
        /\ Len(SentMessages) = 1
        /\ SentMessages[1].content =
              ScrollResponse(event[1].content.id,
                  MultipleResponse(<<Recieved,
                                     Created(issued[Len(issued) - 1]),
                                     Created(issued[Len(issued)])>>))

\* C9 witness: such a batch, whose members carry other ids than the batch
C9_Witness ==
    /\ C9_TwoAddsHandled
    /\ event[1].content.requests[1].id # event[1].content.id
    /\ Len(SentResponses) = 3

RECURSIVE LeafTypes(_)
\* the types of the leaf requests of a request
LeafTypes(req) ==
    IF req.type = "multiple"
    THEN UNION {LeafTypes(req.requests[i]) : i \in 1..Len(req.requests)}
    ELSE {req.type}

\* the step applies a remove or an update that names a uid not retained
C10_UnknownUidStep ==
    (/\ Popping("remove") \/ Popping("update")
     /\ Head(reqests).uid \notin RetainedUids)
    => /\ state' = state
       /\ UID' = UID
       /\ updated' = updated
       /\ res' = Append(res, ScrollResponse(Head(reqests).id, NotFound))

\* a message of remove and update requests only, none of which found its uid,
\* has been handled without format, render or renderall
C10_NoRender ==
    (/\ pc = "join" /\ HandlingMessage
     /\ LeafTypes(event[1].content) \subseteq {"remove", "update"}
     /\ \A i \in 1..Len(SentResponses) :
           SentResponses[i].type \in {"not found", "recieved"})
    => (formats = 0 /\ renders = 0 /\ SentRenders = <<>>)

\* C10: remove and update of a uid that is not retained are answered NotFound
\* and leave skip, the entries, the uid counter and the layout cache unchanged;
\* a message whose requests all fail this way triggers no format and no render.
C10_UnknownUid == [][C10_UnknownUidStep]_vars /\ []C10_NoRender

\* C10 witness: a batch of one remove naming a uid that was assigned and is no
\* longer retained, answered NotFound while other records are retained
C10_Witness ==
    /\ pc = "join" /\ Handling(Multiple(2, <<RemoveEntry(13, 1)>>))
    /\ SentResponses = <<Recieved, NotFound>>
    /\ Len(issued) >= 1 /\ state.entries # <<>>

(***************************************************************************)
(* Claims about the functions called on their own (SpecCalls)              *)
(***************************************************************************)
\* the call followed, once it is one of fn at pc at
TheCall == call[1]

\* C11: eval(Absolute(i), cursor) = min(i, cursor) and eval(Relative(o),
\* cursor) = min(max(cursor + o, 0), cursor); the resolved index is always in
\* 0..cursor, and Relative(-5) at cursor 2 resolves to 0.
C11_PositionResolution ==
    CallAt("eval", "done") =>
        LET position == TheCall.position
            cursor == TheCall.cursor
            resolved == TheCall.result[1]
            sum == cursor + position.index
        IN  /\ position.type = "absolute" =>
                resolved = (IF position.index < cursor THEN position.index ELSE cursor)
            /\ position.type = "relative" =>
                resolved = (IF sum < 0 THEN 0 ELSE IF sum < cursor THEN sum ELSE cursor)
            /\ resolved \in 0..cursor
            /\ (position = Relative(-5) /\ cursor = 2) => resolved = 0

\* C11 witness: Relative(-5) at cursor 2 has been resolved, to 0
C11_Witness ==
    /\ CallAt("eval", "done")
    /\ TheCall.position = Relative(-5) /\ TheCall.cursor = 2
    /\ TheCall.result = Some(0)

RECURSIVE TextOf(_)
\* the text of an entry or of an output line: its text chunks' characters in order
TextOf(entry) ==
    IF entry = <<>> THEN <<>>
    ELSE (IF Head(entry).type = "text" THEN Head(entry).value ELSE <<>>)
         \o TextOf(Tail(entry))

\* the text length of an entry or of an output line, in code units (UTF-8 bytes)
TextLen(entry) == Bytes(TextOf(entry))

\* line holds the first min(width, total length) code units of the text of entry
IsTruncation(line, entry, width) ==
    /\ Len(TextOf(line)) <= Len(TextOf(entry))
    /\ TextOf(line) = SubSeq(TextOf(entry), 1, Len(TextOf(line)))
    /\ TextLen(line) = Min(width, TextLen(entry))

\* C12: in truncate-only mode format(width), width >= 1, gives exactly one line
\* per retained entry, in entry order, each holding the first min(width, total
\* length) code units of the text of its entry (so at most width of them).
C12_TruncateOnly ==
    /\ (CallAt("truncate", "done") \/ CallAt("truncate", "panic")) =>
          /\ TheCall.pc = "done"
          /\ Len(TheCall.ls.new) = 1
          /\ IsTruncation(TheCall.ls.new[1], TheCall.entry, TheCall.length)
    /\ (/\ CallAt("format", "done") \/ CallAt("format", "panic")
        /\ ~LINE_WRAP /\ TheCall.width >= 1) =>
          /\ TheCall.pc = "done"
          /\ LET entries == TheCall.st.entries
                 cache == TheCall.result[1].formatted_cache
             IN  /\ Len(cache) = Len(entries)
                 /\ \A i \in 1..Len(entries) :
                       IsTruncation(cache[i], entries[i].entry, TheCall.width)

RECURSIVE TextOfLines(_)
\* the text of a layout: the texts of its lines in order
TextOfLines(lines) ==
    IF lines = <<>> THEN <<>> ELSE TextOf(Head(lines)) \o TextOfLines(Tail(lines))

\* the entry is made of a single text chunk
SingleText(entry) == Len(entry) = 1 /\ entry[1].type = "text"

\* C13: hard wrap of an entry made of a single text chunk at width w >= 1 gives
\* consecutive slices of the text of exactly w code units, the last one possibly
\* shorter: every line holds at most w code units, no empty trailing line is
\* produced for a non-empty text, and the lines' texts concatenated are the text.
C13_HardWrapSlices ==
    (/\ CallAt("plain_wrap", "done") \/ CallAt("plain_wrap", "panic")
     /\ SingleText(TheCall.entry)) =>
        LET new == TheCall.ls.new
            w == TheCall.length
        IN  /\ TheCall.pc = "done"
            /\ \A k \in 1..(Len(new) - 1) : TextLen(new[k]) = w
            /\ TextLen(new[Len(new)]) <= w
            /\ TextLen(TheCall.entry) > 0 => TextLen(new[Len(new)]) > 0
            /\ TextOfLines(new) = TextOf(TheCall.entry)

\* a wrapper's while loop is about to run an iteration
Iterating(fn) == CallAt(fn, "run") /\ ~LoopDone(TheCall.ls)

\* every line word wrap has produced holds at most width code units
C14_LineLengths ==
    (CallAt("word_wrap", "run") \/ CallAt("word_wrap", "done")) =>
        \A k \in 1..Len(TheCall.ls.new) : TextLen(TheCall.ls.new[k]) <= TheCall.length

\* an iteration on a chunk of at most width code units leaves the chunk whole:
\* it is pushed in full when it fits the current line, and otherwise a new line
\* is started without consuming any of it
C14_WholeStep ==
    Iterating("word_wrap") =>
        LET ls == TheCall.ls
            n == call'[1].ls
            chunk == ls.chunks[ls.cursor]
            last == Len(ls.new)
        IN  ChunkLen(chunk) <= TheCall.length =>
              /\ n.chunks = ls.chunks
              /\ IF TextLen(ls.new[last]) + ChunkLen(chunk) <= TheCall.length
                 THEN /\ n.cursor = ls.cursor + 1
                      /\ n.new = [ls.new EXCEPT ![last] = Append(@, chunk)]
                 ELSE /\ n.cursor = ls.cursor
                      /\ Len(n.new) = last + 1
                      /\ SubSeq(n.new, 1, last) = ls.new
                      /\ TextOf(n.new[last + 1]) = <<>>

\* every word-chunk of split_words of at most width code units is a chunk of an
\* output line
C14_WholeAtReturn ==
    CallAt("word_wrap", "done") =>
        LET words == SplitWords(TheCall.entry)
            new == TheCall.ls.new
        IN  \A i \in 1..Len(words) :
              (words[i].type = "text" /\ ChunkLen(words[i]) <= TheCall.length) =>
                \E k \in 1..Len(new) : \E j \in 1..Len(new[k]) : new[k][j] = words[i]

\* C14: in word wrap at width w >= 1 every output line holds at most w code
\* units, and a word-chunk of split_words of at most w code units is never
\* split: when it overflows the current line it moves to the next line in full;
\* only a chunk longer than w is split.
C14_WordWrapWholeWords ==
    /\ []C14_LineLengths
    /\ [][C14_WholeStep]_vars
    /\ []C14_WholeAtReturn

\* C14 witness: "a aa" at width 3 came out as "a " and "aa": the word "aa" did
\* not fit behind "a " and moved to the second line in full
C14_Witness ==
    /\ CallAt("word_wrap", "done")
    /\ TheCall.entry = <<Text(<<"a", " ", "a", "a">>)>> /\ TheCall.length = 3
    /\ TheCall.ls.new = << <<Text(<<"a", " ">>)>>, <<Text(<<"a", "a">>)>> >>

(***************************************************************************)
(* Claims about the work queue of one message (Spec)                       *)
(***************************************************************************)
RECURSIVE Paths(_)
\* the positions of the requests inside req: <<>> is req itself, <<i>> \o p is
\* position p inside its i-th member
Paths(req) ==
    {<<>>} \cup
    (IF req.type = "multiple"
     THEN UNION {{<<i>> \o p : p \in Paths(req.requests[i])} :
                    i \in 1..Len(req.requests)}
     ELSE {})

RECURSIVE NodeAt(_, _)
\* the request at position path inside req
NodeAt(req, path) ==
    IF path = <<>> THEN req ELSE NodeAt(req.requests[Head(path)], Tail(path))

\* position p comes before position q of the same depth, in list order
ListOrder(p, q) ==
    \E k \in 1..Len(p) : SubSeq(p, 1, k - 1) = SubSeq(q, 1, k - 1) /\ p[k] < q[k]

\* position p is served before position q by a first-in first-out queue: the
\* shallower one first, and list order at equal depth
Before(p, q) == Len(p) < Len(q) \/ (Len(p) = Len(q) /\ ListOrder(p, q))

\* the positions inside req in first-in first-out order
FifoOrder(req) ==
    LET paths == Paths(req)
        rank(p) == Cardinality({q \in paths : Before(q, p)}) + 1
    IN  [k \in 1..Cardinality(paths) |-> CHOOSE p \in paths : rank(p) = k]

\* the responses so far answer, in order, the first requests of the message in
\* first-in first-out order, a Multiple by its acknowledgement; the queue holds,
\* in that order, the requests not yet popped that were received (the message
\* itself) or whose Multiple has been popped
C15_FifoState ==
    (pc = "loop" /\ HandlingMessage) =>
        LET req == event[1].content
            order == FifoOrder(req)
            done == Len(res)
            popped == {order[k] : k \in 1..done}
            queued == SelectSeq([k \in 1..(Len(order) - done) |-> order[done + k]],
                                LAMBDA p : \/ p = <<>>
                                           \/ SubSeq(p, 1, Len(p) - 1) \in popped)
        IN  /\ done <= Len(order)
            /\ \A k \in 1..done :
                  /\ res[k].id = NodeAt(req, order[k]).id
                  /\ (res[k].content.type = "recieved")
                        = (NodeAt(req, order[k]).type = "multiple")
            /\ reqests = [k \in 1..Len(queued) |-> NodeAt(req, queued[k])]

\* popping a request appends its response to the responses; popping a Multiple
\* appends its acknowledgement and puts its members, in list order, behind
\* every request already queued
C15_PopStep ==
    (pc = "loop" /\ reqests # <<>>) =>
        /\ Len(res') = Len(res) + 1
        /\ SubSeq(res', 1, Len(res)) = res
        /\ res'[Len(res')].id = Head(reqests).id
        /\ IF Head(reqests).type = "multiple"
           THEN /\ res'[Len(res')].content = Recieved
                /\ reqests' = Tail(reqests) \o Head(reqests).requests
           ELSE reqests' = Tail(reqests)

\* C15: the requests of one message are applied in first-in first-out order: a
\* Multiple's acknowledgement is enqueued before the responses of its members,
\* the members of a Multiple are applied in list order, those of a nested
\* Multiple only after every request queued when it was popped, and the
\* responses accumulate in the order in which the requests are popped.
C15_FifoOrder == []C15_FifoState /\ [][C15_PopStep]_vars

\* C15 witness: a batch of a nested batch (one add) and a remove has been
\* drained: the remove, the later sibling, was answered before the nested add
C15_Witness ==
    /\ pc = "loop" /\ reqests = <<>>
    /\ Handling(Multiple(2, <<Multiple(20, <<AddEntry(11, Relative(0), EntryA)>>),
                               RemoveEntry(13, 1)>>))
    /\ [k \in 1..Len(res) |-> res[k].id] = <<2, 20, 13, 11>>
    /\ res[1].content = Recieved /\ res[2].content = Recieved

(***************************************************************************)
(* Claims about the wrappers (SpecCalls), continued                        *)
(***************************************************************************)
RECURSIVE LastColour(_)
\* the colour in effect behind the chunks: Some(the last Colour chunk among
\* them), None when there is none
LastColour(chunks) ==
    IF chunks = <<>> THEN None
    ELSE IF chunks[Len(chunks)].type = "colour" THEN Some(chunks[Len(chunks)])
    ELSE LastColour(SubSeq(chunks, 1, Len(chunks) - 1))

\* the Colour chunks among the chunks, in order
ColoursOf(chunks) == SelectSeq(chunks, LAMBDA c : c.type = "colour")

\* the wrappers keep the Colour chunks of the source entry in their working copy
C16_SourceColours ==
    (\E fn \in {"plain_wrap", "word_wrap"} : CallAt(fn, "run")) =>
        ColoursOf(TheCall.ls.chunks) = ColoursOf(TheCall.entry)

\* an iteration that works on a text chunk finds, at the end of the current
\* output line, the colour in effect that the chunk has in the source; a line it
\* starts begins with a copy of the most recent Colour chunk of the source up to
\* the break, and is empty when there is none
C16_ColourStep ==
    (Iterating("plain_wrap") \/ Iterating("word_wrap")) =>
        LET ls == TheCall.ls
            n == call'[1].ls
            chunk == ls.chunks[ls.cursor]
        IN  /\ chunk.type = "text" =>
                  LastColour(ls.new[Len(ls.new)])
                    = LastColour(SubSeq(ls.chunks, 1, ls.cursor - 1))
            /\ Len(n.new) > Len(ls.new) =>
                  /\ Len(n.new) = Len(ls.new) + 1
                  /\ n.new[Len(n.new)] = LastColour(SubSeq(ls.chunks, 1, ls.cursor))

\* C16: in hard wrap and in word wrap every output line other than the first
\* begins with a copy of the most recent Colour chunk that precedes the break in
\* the source entry, and with no Colour chunk when none precedes it, so a text
\* fragment has in its output line the colour in effect it has in the source.
C16_ColourCarried == []C16_SourceColours /\ [][C16_ColourStep]_vars

\* C16 witness: hard wrap of [red, blue, "aa"] at width 1 came out as
\* [red, blue, "a"], [blue, "a"]: the second line begins with the latest colour
C16_Witness ==
    /\ CallAt("plain_wrap", "done")
    /\ TheCall.entry = <<Colour("red"), Colour("blue"), Text(<<"a", "a">>)>>
    /\ TheCall.length = 1
    /\ TheCall.ls.new = << <<Colour("red"), Colour("blue"), Text(<<"a">>)>>,
                           <<Colour("blue"), Text(<<"a">>)>> >>

\* the text without its first n characters
Drop(value, n) == SubSeq(value, n + 1, Len(value))

\* the iteration of wrapper fn about to run splits the chunk under the cursor
\* on a line that already holds text, and does not panic
SplitsOnUsedLine(fn) ==
    /\ Iterating(fn)
    /\ LET ls == TheCall.ls
           chunk == ls.chunks[ls.cursor]
           r == TextLen(ls.new[Len(ls.new)])
       IN  /\ r > 0
           /\ r + ChunkLen(chunk) > TheCall.length
           /\ fn = "word_wrap" => ChunkLen(chunk) > TheCall.length
    /\ call'[1].pc = "run"

\* the chunk under the cursor after the iteration is the one before it without
\* its first n characters
RemainderDrops(n) ==
    LET ls == TheCall.ls
    IN  call'[1].ls.chunks =
            [ls.chunks EXCEPT ![ls.cursor] = Text(Drop(ls.chunks[ls.cursor].value, n))]

\* C17 as stated: in hard wrap and in word wrap alike, a chunk split on a line
\* that already holds r > 0 code units continues without its first `width`
\* code units (read as characters, which is what Chunk::skip counts).
C17_BothSkipWidth ==
    [][/\ SplitsOnUsedLine("plain_wrap") => RemainderDrops(TheCall.length)
       /\ SplitsOnUsedLine("word_wrap") => RemainderDrops(TheCall.length)]_vars

\* C17 amended: a chunk split on a line that already holds r > 0 code units
\* continues without its first `width` characters in hard wrap only; in word
\* wrap it continues without its first `width - r` characters, the number of
\* code units placed on the line.
C17_HardWrapOnlySkipsWidth ==
    [][/\ SplitsOnUsedLine("plain_wrap") => RemainderDrops(TheCall.length)
       /\ SplitsOnUsedLine("word_wrap") =>
            RemainderDrops(TheCall.length
                           - TextLen(TheCall.ls.new[Len(TheCall.ls.new)]))]_vars

\* C17 witness: word wrap of " aaa" at width 2 has put "a" behind " " and
\* continued with "aa", the chunk "aaa" without the one character placed
C17_Witness ==
    /\ CallAt("word_wrap", "done")
    /\ TheCall.entry = <<Text(<<" ", "a", "a", "a">>)>> /\ TheCall.length = 2
    /\ TheCall.ls.new = << <<Text(<<" ">>), Text(<<"a">>)>>, <<Text(<<"a", "a">>)>> >>

(***************************************************************************)
(* Claims about the event loop (Spec), continued                           *)
(***************************************************************************)
\* C18: whenever add returns a uid (the request is answered Created{uid}), a
\* record with that uid is among the retained entries immediately after the
\* add, for every position and every buffer state.
C18_CreatedIsRetained ==
    (/\ pc = "loop" /\ res # <<>>
     /\ res[Len(res)].content.type = "created") =>
        res[Len(res)].content.uid \in RetainedUids

RECURSIVE CountRequests(_)
\* the number of requests of a request: itself and, for a Multiple, those of
\* its members (leaf requests plus Multiple requests)
CountRequests(req) ==
    IF req.type = "multiple"
    THEN LET RECURSIVE Sum(_)
             Sum(i) == IF i = 0 THEN 0
                       ELSE CountRequests(req.requests[i]) + Sum(i - 1)
         IN  1 + Sum(Len(req.requests))
    ELSE 1

\* when the queue is drained there is one response per request of the message,
\* hence at least one; the handling then sends exactly one message, with the id
\* of the inbound top-level request, that carries these responses
C19_OneMessage ==
    /\ (pc = "loop" /\ reqests = <<>> /\ HandlingMessage) =>
          Len(res) = CountRequests(event[1].content)
    /\ (pc = "join" /\ HandlingMessage) =>
          /\ Len(SentMessages) = 1
          /\ SentMessages[1].content.id = event[1].content.id
          /\ Len(SentResponses) = CountRequests(event[1].content)

\* every pop of a request adds exactly one response, and nothing else does
C19_PopStep ==
    /\ (pc = "loop" /\ reqests # <<>>) =>
          (Len(reqests') >= Len(reqests) - 1 /\ Len(res') = Len(res) + 1)
    /\ (pc = "loop" /\ reqests = <<>>) => Len(res) >= 1

\* C19: every inbound request message produces exactly one outbound response
\* message, whose id is the id of the inbound top-level request; every popped
\* request, leaf or Multiple, even an empty Multiple, contributes exactly one
\* response, so the responses number the leaf requests plus the Multiple
\* requests and are never zero.
C19_ExactlyOneResponseMessage == []C19_OneMessage /\ [][C19_PopStep]_vars

\* C19 witness: a batch holding one empty batch was answered by one message with
\* the id of the outer batch and two acknowledgements
C19_Witness ==
    /\ pc = "join" /\ Handling(Multiple(2, <<Multiple(20, <<>>)>>))
    /\ Len(SentMessages) = 1 /\ SentMessages[1].content.id = 2
    /\ SentResponses = <<Recieved, Recieved>>

(***************************************************************************)
(* Termination (FairSpec)                                                  *)
(***************************************************************************)
\* the work left in the queue: the requests queued and those inside them
QueuedRequests ==
    LET RECURSIVE Sum(_)
        Sum(i) == IF i = 0 THEN 0 ELSE CountRequests(reqests[i]) + Sum(i - 1)
    IN  Sum(Len(reqests))

\* the work left in a wrapper's loop: twice the chunks from the cursor on and
\* their characters, plus one while the current line holds text
LoopWork(ls) ==
    LET rest == SubSeq(ls.chunks, ls.cursor, Len(ls.chunks))
    IN  2 * (Len(rest) + Len(TextOf(rest)))
        + (IF ls.running_length > 0 THEN 1 ELSE 0)

\* an iteration of wrapper fn that splits the chunk under the cursor and does
\* not panic
Splits(fn) ==
    /\ Iterating(fn)
    /\ LET ls == TheCall.ls
           chunk == ls.chunks[ls.cursor]
       IN  /\ ls.running_length + ChunkLen(chunk) > TheCall.length
           /\ fn = "word_wrap" => ChunkLen(chunk) > TheCall.length
    /\ call'[1].pc = "run"

\* the chunk under the cursor is shorter after the step
Shortens ==
    Len(call'[1].ls.chunks[TheCall.ls.cursor].value)
        < Len(TheCall.ls.chunks[TheCall.ls.cursor].value)

\* C20 as stated, the reason given for the termination of the wrappers: hard
\* wrap and word wrap strictly shorten the overflowing chunk on each split.
C20_EverySplitShortens ==
    [][(Splits("plain_wrap") \/ Splits("word_wrap")) => Shortens]_vars

\* the queue is empty whenever main waits for the next event
C20_QueueEmptyAtRecv == pc = "recv" => reqests = <<>>

\* format at width 0 returns the State as it is, whatever the entries
C20_FormatAtZero ==
    (/\ CallAt("format", "done") \/ CallAt("format", "panic")
     /\ TheCall.width = 0) =>
        (TheCall.pc = "done" /\ TheCall.result = Some(TheCall.st))

\* at width 0 an iteration of a wrapper on a non-empty text chunk would leave
\* the cursor and the chunks as they are
C20_NoAdvanceAtZero ==
    \A fn \in {"plain_wrap", "word_wrap"} :
        (/\ Iterating(fn)
         /\ TheCall.ls.running_length = 0
         /\ ChunkLen(TheCall.ls.chunks[TheCall.ls.cursor]) > 0) =>
            LET ls == TheCall.ls
                n == IF fn = "plain_wrap" THEN PlainWrapStep(ls, 0)
                     ELSE WordWrapStep(ls, 0)
            IN  n.cursor = ls.cursor /\ n.chunks = ls.chunks /\ n.running_length = 0

\* every pop leaves less work in the queue; every iteration of a wrapper leaves
\* less work in its loop; hard wrap shortens the chunk on every split, word
\* wrap on every split but the one made on a full line, which leaves the chunk
\* whole and the line empty
C20_WorkDecreases ==
    /\ (pc = "loop" /\ reqests # <<>>) => QueuedRequests' = QueuedRequests - 1
    /\ \A fn \in {"plain_wrap", "word_wrap"} :
          /\ (Iterating(fn) /\ call'[1].pc = "run") =>
                (LoopWork(call'[1].ls) < LoopWork(TheCall.ls) /\ LoopWork(call'[1].ls) >= 0)
          /\ Splits(fn) =>
                IF fn = "word_wrap" /\ TheCall.ls.running_length = TheCall.length
                THEN /\ call'[1].ls.chunks = TheCall.ls.chunks
                     /\ call'[1].ls.running_length = 0
                ELSE Shortens

\* the function called on its own is still running
Running == call # None /\ TheCall.pc \in {"call", "run"}

\* the function called on its own has returned or panicked
Returned == call # None /\ TheCall.pc \in {"done", "panic"}

\* C20 amended: handling a message always terminates: the queue drains and is
\* empty before the next event is received; format ends (by a return or by the
\* panic of String::truncate) at every width, because each iteration of a
\* wrapper at width >= 1 leaves less work and format at width 0 returns without
\* invoking a wrapper, whose loop would not advance there.
C20_Terminates ==
    /\ []C20_QueueEmptyAtRecv
    /\ []C20_FormatAtZero
    /\ []C20_NoAdvanceAtZero
    /\ [][C20_WorkDecreases]_vars
    /\ (pc = "loop") ~> (pc = "recv")
    /\ Running ~> Returned

\* C20 witness: word wrap of "a aa" at width 1 has returned its four lines,
\* having split "aa" once on the full line " " without shortening it
C20_Witness ==
    /\ CallAt("word_wrap", "done")
    /\ TheCall.entry = <<Text(<<"a", " ", "a", "a">>)>> /\ TheCall.length = 1
    /\ Len(TheCall.ls.new) = 4

=============================================================================
